---- MODULE Spec2Model ----
(***************************************************************************)
(* A model of django-translations: the Translation overlay table           *)
(* (translations/models.py), the Translatable model mix-in                 *)
(* (translations/models.py) and the TranslatableQuerySet                   *)
(* (translations/querysets.py).                                            *)
(***************************************************************************)
EXTENDS Bags, FiniteSets, Integers, Sequences, TLC

VARIABLES
    cls,      \* the model class get_translatable_fields is called on
    result,   \* what the last get_translatable_fields call produced
    table,    \* the Translation table: a bag of rows
    obj,      \* an in-memory Translatable instance
    qs,       \* the live TranslatableQuerySet objects, oldest first
    last      \* what the last call did (its outcome and the stores it touched)

vars == <<cls, result, table, obj, qs, last>>

\* Python's None.
None == "None"

-----------------------------------------------------------------------------
(* Bounds of the model.                                                    *)

\* The number of fields of a model class.
MaxFields == 2
\* The length of an explicitly declared TranslatableMeta.fields list.
MaxDeclared == 2
\* The number of rows the Translation table holds.
MaxRows == 3
\* The number of queryset objects the program holds at once.
MaxQuerysets == 3
\* The number of filter / exclude predicates of one query.
MaxPredicates == 2

-----------------------------------------------------------------------------
(* Model classes and Translatable.get_translatable_fields.                 *)

\* The field classes a model may use.  EmailField and SlugField subclass
\* CharField in Django.
FieldKinds == {"CharField", "TextField", "EmailField", "SlugField", "IntegerField"}

\* isinstance(field, (models.CharField, models.TextField,))
IsCharOrText(field) == field.kind \in {"CharField", "TextField", "EmailField", "SlugField"}

\* isinstance(field, models.EmailField)
IsEmail(field) == field.kind = "EmailField"

\* HasChoices with a fault: the choices of a field are not looked at.
HasChoicesIgnored(field) == FALSE

\* hasattr(field, 'choices') and field.choices
HasChoices(field) == field.choices

\* The names the fields of the classes of this model carry, by position, and a
\* name that no class has a field for.
FieldNames == <<"title", "body", "email", "slug">>
UnknownName == "nosuch"

\* cls._meta.get_fields(): the fields of the class, in definition order.
get_fields(c) == c.fields

\* The names of the fields of the class.
NamesOf(c) == {c.fields[i].name : i \in DOMAIN c.fields}

\* cls._meta.get_field(field_name): the field of that name; Django raises
\* FieldDoesNotExist when the class has none.
get_field(c, field_name) ==
    IF field_name \in NamesOf(c)
    THEN c.fields[CHOOSE i \in DOMAIN c.fields : c.fields[i].name = field_name]
    ELSE None

\* The loop of the default branch over the first n fields of s: the fields
\* that are CharField or TextField, are no EmailField and have no choices,
\* in order.
RECURSIVE SelectFields(_, _)
SelectFields(s, n) ==
    IF n = 0 THEN <<>>
    ELSE LET rest == SelectFields(s, n - 1)
             field == s[n]
         IN IF IsCharOrText(field) /\ ~IsEmail(field) /\ ~HasChoices(field)
            THEN Append(rest, field)
            ELSE rest

\* The default branch: TranslatableMeta.fields is None.
DefaultFields(c) == SelectFields(get_fields(c), Len(get_fields(c)))

\* The explicit branch: [cls._meta.get_field(name) for name in fields].
DeclaredFields(c) == [i \in DOMAIN c.declared |-> get_field(c, c.declared[i])]

\* get_translatable_fields with a fault: a class without TranslatableMeta
\* gets an empty list instead of the exception.
get_translatable_fields_silent(c) ==
    IF c.meta = "absent" THEN [raised |-> None, fields |-> <<>>]
    ELSE IF c.meta = "default"
         THEN [raised |-> None, fields |-> DefaultFields(c)]
         ELSE IF \A i \in DOMAIN c.declared : c.declared[i] \in NamesOf(c)
              THEN [raised |-> None, fields |-> DeclaredFields(c)]
              ELSE [raised |-> "FieldDoesNotExist", fields |-> <<>>]

\* Translatable.get_translatable_fields.  c.meta is "absent" when the class
\* has no TranslatableMeta attribute (hasattr is False), "default" when
\* TranslatableMeta.fields is None and "list" when it is the list c.declared.
\* The list comprehension of the explicit branch raises as soon as get_field
\* does.
get_translatable_fields(c) ==
    IF c.meta # "absent"
    THEN IF c.meta = "default"
         THEN [raised |-> None, fields |-> DefaultFields(c)]
         ELSE IF \A i \in DOMAIN c.declared : c.declared[i] \in NamesOf(c)
              THEN [raised |-> None, fields |-> DeclaredFields(c)]
              ELSE [raised |-> "FieldDoesNotExist", fields |-> <<>>]
    ELSE [raised |-> "Exception", fields |-> <<>>]

\* Sequences over S of length at most n.
SeqsUpTo(S, n) == UNION {[1..k -> S] : k \in 0..n}

\* The field lists of the classes of the model: distinct names, any kind,
\* with or without choices.
FieldLists ==
    UNION {{[i \in 1..k |-> [name |-> FieldNames[i], kind |-> kinds[i], choices |-> ch[i]]] :
               kinds \in [1..k -> FieldKinds], ch \in [1..k -> BOOLEAN]} : k \in 0..MaxFields}

\* The names a declaration may list: the names in use and an unknown one.
DeclarableNames == {FieldNames[i] : i \in 1..MaxFields} \cup {UnknownName}

\* The class declarations: no TranslatableMeta, fields = None, fields = [...].
Classes ==
    {[meta |-> m, declared |-> <<>>, fields |-> fl] :
        m \in {"absent", "default"}, fl \in FieldLists}
    \cup {[meta |-> "list", declared |-> d, fields |-> fl] :
             d \in SeqsUpTo(DeclarableNames, MaxDeclared), fl \in FieldLists}

NoResult == [raised |-> "not called", fields |-> <<>>]

-----------------------------------------------------------------------------
(* The entity store, the languages and the Translation table.              *)

\* settings.LANGUAGES: the closed set of language codes.
Languages == {"fr", "de"}

\* get_language(): the language the locale provider reports as current.
CurrentLanguage == "fr"

\* The texts a translation or an attribute assignment may carry.
Texts == {"a", "b"}

\* The two Translatable model classes of the application.
ArticleClass ==
    [meta |-> "default", declared |-> <<>>,
     fields |-> <<[name |-> "title", kind |-> "CharField", choices |-> FALSE],
                  [name |-> "status", kind |-> "CharField", choices |-> TRUE]>>]
AuthorClass ==
    [meta |-> "list", declared |-> <<"name", "bio">>,
     fields |-> <<[name |-> "name", kind |-> "CharField", choices |-> FALSE],
                  [name |-> "bio", kind |-> "TextField", choices |-> FALSE]>>]

ContentTypes == {"article", "author"}
ClassOf(content_type) == IF content_type = "article" THEN ArticleClass ELSE AuthorClass

\* The names of the translatable fields of a content type.
TranslatableNames(content_type) ==
    LET fields == get_translatable_fields(ClassOf(content_type)).fields
    IN {fields[i].name : i \in DOMAIN fields}

\* The rows of the entity store: (content type, primary key).
Articles == {[content_type |-> "article", object_id |-> id] : id \in {"1", "2"}}
Authors == {[content_type |-> "author", object_id |-> "1"]}
Entities == Articles \cup Authors

\* The base-language value the entity store holds for a field of an entity.
BaseValue(e, field) ==
    IF e.content_type = "article" /\ e.object_id = "1" THEN "a" ELSE "base"

\* A row of the Translation table (its primary key left out).
Row(e, field, language, text) ==
    [content_type |-> e.content_type, object_id |-> e.object_id,
     field |-> field, language |-> language, text |-> text]

\* The address of a row: the columns of Translation.Meta.unique_together.
Address(row) == <<row.content_type, row.object_id, row.field, row.language>>

\* The rows that Translation.objects.create may be asked to insert for the
\* entities of E.
RowsFor(E) ==
    {Row(e, f, l, t) : e \in E, f \in {"title", "name", "bio"}, l \in Languages, t \in Texts}
ValidRowsFor(E) == {r \in RowsFor(E) : r.field \in TranslatableNames(r.content_type)}

\* The rows of table t at an address, and how many there are.
RowsAt(t, address) == {r \in BagToSet(t) : Address(r) = address}
CountAt(t, address) == BagCardinality([r \in RowsAt(t, address) |-> t[r]])

\* UniqueTogether with a fault: the constraint is not declared.
UniqueTogetherDropped(t, row) == TRUE

\* Translation.Meta.unique_together: the database accepts a new row only if no
\* row has its (content_type, object_id, field, language).
UniqueTogether(t, row) == RowsAt(t, Address(row)) = {}

\* INSERT of one row; the database raises IntegrityError when the constraint
\* rejects it and the table keeps its rows.
Insert(t, row) ==
    IF UniqueTogether(t, row)
    THEN [raised |-> None, table |-> t (+) SetToBag({row})]
    ELSE [raised |-> "IntegrityError", table |-> t]

\* upsert(address, text): create-or-replace keyed by the full address.
Upsert(t, row) ==
    LET here == RowsAt(t, Address(row))
        others == [r \in BagToSet(t) \ here |-> t[r]]
    IN IF here = {}
       THEN Insert(t, row).table
       ELSE others (+) [r \in {row} |-> CountAt(t, Address(row))]

\* An instance as loaded from the entity store: every translatable field holds
\* its base value.
Instance(e) ==
    [content_type |-> e.content_type, object_id |-> e.object_id,
     values |-> [f \in TranslatableNames(e.content_type) |-> BaseValue(e, f)]]

EntityOf(instance) ==
    [content_type |-> instance.content_type, object_id |-> instance.object_id]

\* _get_standard_language(lang): the language itself, or the current language
\* when none is given.  The languages passed in are those of Languages.
get_standard_language(lang) == IF lang = None THEN CurrentLanguage ELSE lang

\* The text the table holds for a field of an instance in a language.
TextAt(t, instance, field, language) ==
    (CHOOSE r \in RowsAt(t, <<instance.content_type, instance.object_id, field, language>>) :
        TRUE).text

\* Context.read / translate: every translatable field of the instance takes
\* the text of its row in the language when there is one, and keeps its value
\* when there is none.  The instances reached through relations are not part
\* of the state; the relations a queryset carries are.
Translated(t, instance, language) ==
    [instance EXCEPT !.values =
        [f \in DOMAIN instance.values |->
            IF RowsAt(t, <<instance.content_type, instance.object_id, f, language>>) # {}
            THEN TextAt(t, instance, f, language)
            ELSE instance.values[f]]]

\* utils.update_translations: upsert the current value of every translatable
\* field of the instance as its translation in the language.
RECURSIVE SyncFields(_, _, _, _)
SyncFields(t, instance, language, todo) ==
    IF todo = {} THEN t
    ELSE LET f == CHOOSE x \in todo : TRUE
         IN SyncFields(Upsert(t, Row(EntityOf(instance), f, language, instance.values[f])),
                       instance, language, todo \ {f})

\* Translatable.update_translations(lang).
update_translations(t, self, lang) ==
    SyncFields(t, self, get_standard_language(lang), DOMAIN self.values)

\* get_translated with a fault: the requested language is not passed on.
get_translated_current(t, self, lang) == Translated(t, self, CurrentLanguage)

\* Translatable.get_translated(lang=lang), no relations and no translations
\* queryset given: translate(self, lang=lang) and return self, as it is on
\* table t.
get_translated(t, self, lang) == Translated(t, self, get_standard_language(lang))

\* What `last` holds for a call.
Call(op, self, arg, raised, entity_read, overlay_read) ==
    [op |-> op, self |-> self, arg |-> arg, raised |-> raised,
     entity_read |-> entity_read, overlay_read |-> overlay_read]
NoCall == Call("none", 0, None, None, FALSE, FALSE)

-----------------------------------------------------------------------------
(* TranslatableQuerySet.                                                   *)

\* The model the querysets are built on.
QuerysetModel == "article"

\* The lookups filter / exclude are called with.
Lookups == {[field |-> "title", value |-> "a"]}

\* The relation lists translate_related is called with; <<None>> is the call
\* translate_related(None).
RelationArgs == {<<>>, <<None>>, <<"comments">>}

\* TranslatableQuerySet.__init__: a queryset as the manager constructs it.
\* query is the list of the predicates of the underlying query, evaluated
\* says that _result_cache is not None and result_cache holds the instances;
\* reads counts the Context.read calls made for this object.
QuerySetInit ==
    [trans_lang |-> None, trans_rels |-> <<>>, trans_cipher |-> TRUE,
     trans_cache |-> FALSE, iterable_class |-> "ModelIterable", query |-> <<>>,
     evaluated |-> FALSE, result_cache |-> {}, reads |-> 0]

\* query.QuerySet._chain / _clone: a new object with the receiver's query and
\* iterable class and no result cache.
super_chain(self) ==
    [QuerySetInit EXCEPT !.query = self.query, !.iterable_class = self.iterable_class]

\* chain with a fault: the translation settings are not carried over.
chain_defaults(self) == super_chain(self)

\* TranslatableQuerySet._chain.
chain(self) ==
    [super_chain(self) EXCEPT !.trans_lang = self.trans_lang,
                              !.trans_rels = self.trans_rels,
                              !.trans_cipher = self.trans_cipher,
                              !.trans_cache = FALSE]

\* translate_mode with a fault: the cipher flag is not looked at.
translate_mode_lang_only(self) == self.trans_lang # None

\* TranslatableQuerySet._translate_mode.
translate_mode(self) == self.trans_lang # None /\ self.trans_cipher

\* apply with a fault: the predicates already rewritten follow the new
\* language.
apply_retranslating(self, lang) ==
    [chain(self) EXCEPT
        !.trans_lang = get_standard_language(lang),
        !.query = [k \in DOMAIN self.query |->
                      IF self.query[k].lang = None THEN self.query[k]
                      ELSE [self.query[k] EXCEPT !.lang = get_standard_language(lang)]]]

\* TranslatableQuerySet.apply.
apply(self, lang) == [chain(self) EXCEPT !.trans_lang = get_standard_language(lang)]

\* TranslatableQuerySet.translate_related.
translate_related(self, fields) ==
    [chain(self) EXCEPT !.trans_rels = IF fields = <<None>> THEN <<>> ELSE fields]

\* cipher with a fault: the flag is set on the receiver, which is returned.
cipher_in_place(self) == [self EXCEPT !.trans_cipher = TRUE]

\* TranslatableQuerySet.cipher.
cipher(self) == [chain(self) EXCEPT !.trans_cipher = TRUE]

\* TranslatableQuerySet.decipher.
decipher(self) == [chain(self) EXCEPT !.trans_cipher = FALSE]

\* query.QuerySet.values: a clone that iterates dictionaries.
values(self) == [chain(self) EXCEPT !.iterable_class = "ValuesIterable"]

\* A predicate of the underlying query: a lookup on the base field
\* (lang = None) or on the Translation rows of a language, negated or not.
Predicate(negated, lang, lookup) ==
    [negated |-> negated, lang |-> lang, field |-> lookup.field, value |-> lookup.value]

\* The lookup handed over unchanged.
Native(lookup) == Predicate(FALSE, None, lookup)

\* _fetch_translations_query_getter(model, lang)(lookup): a lookup on a
\* translatable field becomes a lookup on the Translation rows of lang.
translations_query(model, lang, lookup) ==
    IF lookup.field \in TranslatableNames(model)
    THEN Predicate(FALSE, lang, lookup)
    ELSE Native(lookup)

\* query.QuerySet.filter / exclude: a clone whose query is the receiver's
\* AND the predicate (AND NOT the predicate for exclude).
super_filter(self, negate, predicate) ==
    [chain(self) EXCEPT !.query = Append(self.query, [predicate EXCEPT !.negated = negate])]

\* The predicate filter / exclude hand to the underlying queryset.
lookup_query(self, lookup) ==
    IF translate_mode(self)
    THEN translations_query(QuerysetModel, self.trans_lang, lookup)
    ELSE Native(lookup)

\* TranslatableQuerySet.filter.
filter(self, lookup) == super_filter(self, FALSE, lookup_query(self, lookup))

\* TranslatableQuerySet.exclude.
exclude(self, lookup) == super_filter(self, TRUE, lookup_query(self, lookup))

\* Whether an entity satisfies a predicate of the query.
Satisfies(t, e, p) ==
    LET hit == IF p.lang = None
               THEN BaseValue(e, p.field) = p.value
               ELSE \E r \in RowsAt(t, <<e.content_type, e.object_id, p.field, p.lang>>) :
                       r.text = p.value
    IN IF p.negated THEN ~hit ELSE hit

\* The SQL query run against the entity store: the instances of the model
\* that satisfy every predicate.
Execute(t, query) ==
    {Instance(e) : e \in {x \in Articles : \A k \in DOMAIN query : Satisfies(t, x, query[k])}}

\* fetch_all with a fault: the iterable class is not checked.
fetch_all_unchecked(self, t) ==
    LET loaded == IF self.evaluated THEN self.result_cache ELSE Execute(t, self.query)
        fetched == [self EXCEPT !.evaluated = TRUE, !.result_cache = loaded]
    IN IF ~translate_mode(self)
       THEN [self |-> fetched, raised |-> None,
             entity_read |-> ~self.evaluated, overlay_read |-> FALSE]
       ELSE IF ~self.trans_cache
            THEN [self |-> [fetched EXCEPT
                               !.result_cache =
                                   {Translated(t, x, self.trans_lang) : x \in loaded},
                               !.trans_cache = TRUE,
                               !.reads = self.reads + 1],
                  raised |-> None,
                  entity_read |-> ~self.evaluated, overlay_read |-> TRUE]
            ELSE [self |-> fetched, raised |-> None,
                  entity_read |-> ~self.evaluated, overlay_read |-> FALSE]

\* fetch_all with a fault: the translations are read on every evaluation.
fetch_all_uncached(self, t) ==
    LET loaded == IF self.evaluated THEN self.result_cache ELSE Execute(t, self.query)
        fetched == [self EXCEPT !.evaluated = TRUE, !.result_cache = loaded]
    IN IF ~translate_mode(self)
       THEN [self |-> fetched, raised |-> None,
             entity_read |-> ~self.evaluated, overlay_read |-> FALSE]
       ELSE IF self.iterable_class # "ModelIterable"
            THEN [self |-> fetched, raised |-> "TypeError",
                  entity_read |-> ~self.evaluated, overlay_read |-> FALSE]
            ELSE [self |-> [fetched EXCEPT
                               !.result_cache =
                                   {Translated(t, x, self.trans_lang) : x \in loaded},
                               !.trans_cache = TRUE,
                               !.reads = self.reads + 1],
                  raised |-> None,
                  entity_read |-> ~self.evaluated, overlay_read |-> TRUE]

\* TranslatableQuerySet._fetch_all on table t: the queryset afterwards, what
\* was raised and which stores were read.
fetch_all(self, t) ==
    LET loaded == IF self.evaluated THEN self.result_cache ELSE Execute(t, self.query)
        fetched == [self EXCEPT !.evaluated = TRUE, !.result_cache = loaded]
    IN IF ~translate_mode(self)
       THEN [self |-> fetched, raised |-> None,
             entity_read |-> ~self.evaluated, overlay_read |-> FALSE]
       ELSE IF self.iterable_class # "ModelIterable"
            THEN [self |-> fetched, raised |-> "TypeError",
                  entity_read |-> ~self.evaluated, overlay_read |-> FALSE]
            ELSE IF ~self.trans_cache
                 THEN [self |-> [fetched EXCEPT
                                    !.result_cache =
                                        {Translated(t, x, self.trans_lang) : x \in loaded},
                                    !.trans_cache = TRUE,
                                    !.reads = self.reads + 1],
                       raised |-> None,
                       entity_read |-> ~self.evaluated, overlay_read |-> TRUE]
                 ELSE [self |-> fetched, raised |-> None,
                       entity_read |-> ~self.evaluated, overlay_read |-> FALSE]

-----------------------------------------------------------------------------
(* The operations.                                                         *)

\* cls.get_translatable_fields() on the class at hand.
GetTranslatableFields ==
    /\ result = NoResult
    /\ result' = get_translatable_fields(cls)
    /\ UNCHANGED <<cls, table, obj, qs, last>>

\* Translation.objects.create(**row).
Create(row) ==
    /\ BagCardinality(table) < MaxRows
    /\ table' = Insert(table, row).table
    /\ last' = Call("create", 0, None, Insert(table, row).raised, FALSE, FALSE)
    /\ UNCHANGED <<cls, result, obj, qs>>

\* Model.objects.get(pk=...): obj becomes a fresh instance of entity e.
Load(e) ==
    /\ obj' = Instance(e)
    /\ last' = Call("load", 0, None, None, TRUE, FALSE)
    /\ UNCHANGED <<cls, result, table, qs>>

\* obj.<field> = text.
SetAttr(field, text) ==
    /\ field \in DOMAIN obj.values
    /\ obj' = [obj EXCEPT !.values[field] = text]
    /\ last' = Call("setattr", 0, None, None, FALSE, FALSE)
    /\ UNCHANGED <<cls, result, table, qs>>

\* obj.update_translations(lang).
UpdateTranslations(lang) ==
    /\ BagCardinality(update_translations(table, obj, lang)) <= MaxRows
    /\ table' = update_translations(table, obj, lang)
    /\ last' = Call("update_translations", 0, lang, None, FALSE, FALSE)
    /\ UNCHANGED <<cls, result, obj, qs>>

\* obj.get_translated(lang=lang).
GetTranslated(lang) ==
    /\ obj' = get_translated(table, obj, lang)
    /\ last' = Call("get_translated", 0, lang, None, FALSE, TRUE)
    /\ UNCHANGED <<cls, result, table, qs>>

\* A chaining call on queryset i that returns the queryset clone.
Chained(op, i, arg, clone) ==
    /\ Len(qs) < MaxQuerysets
    /\ qs' = Append(qs, clone)
    /\ last' = Call(op, i, arg, None, FALSE, FALSE)
    /\ UNCHANGED <<cls, result, table, obj>>

Apply(i, lang) == Chained("apply", i, lang, apply(qs[i], lang))
TranslateRelated(i, fields) ==
    Chained("translate_related", i, fields, translate_related(qs[i], fields))
Cipher(i) == Chained("cipher", i, None, cipher(qs[i]))
Decipher(i) == Chained("decipher", i, None, decipher(qs[i]))
Values(i) == Chained("values", i, None, values(qs[i]))
Filter(i, lookup) ==
    /\ Len(qs[i].query) < MaxPredicates
    /\ Chained("filter", i, lookup, filter(qs[i], lookup))
Exclude(i, lookup) ==
    /\ Len(qs[i].query) < MaxPredicates
    /\ Chained("exclude", i, lookup, exclude(qs[i], lookup))

\* An evaluation of queryset i (iteration, len, bool, ...).
FetchAll(i) ==
    LET done == fetch_all(qs[i], table)
    IN /\ qs' = [qs EXCEPT ![i] = done.self]
       /\ last' = Call("fetch_all", i, None, done.raised, done.entity_read, done.overlay_read)
       /\ UNCHANGED <<cls, result, table, obj>>

\* The program keeps the queryset it built last (qs = qs.filter(...)); the
\* objects it was chained from are no longer referenced and are collected.
Rebind ==
    /\ Len(qs) > 1
    /\ qs' = <<qs[Len(qs)]>>
    /\ last' = NoCall
    /\ UNCHANGED <<cls, result, table, obj>>

-----------------------------------------------------------------------------
(* The specifications.                                                     *)

LangArgs == Languages \cup {None}

\* get_translatable_fields applied to every class declaration.
InitFields ==
    /\ cls \in Classes
    /\ result = NoResult
    /\ table = EmptyBag
    /\ obj = Instance(CHOOSE e \in Articles : e.object_id = "1")
    /\ qs = <<QuerySetInit>>
    /\ last = NoCall

NextFields == GetTranslatableFields

SpecFields == InitFields /\ [][NextFields]_vars

\* Writes to the Translation table for the entities of every content type.
InitTable ==
    /\ cls = ArticleClass
    /\ result = NoResult
    /\ table = EmptyBag
    /\ obj \in {Instance(e) : e \in Entities}
    /\ qs = <<QuerySetInit>>
    /\ last = NoCall

NextTable ==
    \/ \E row \in ValidRowsFor(Entities) : Create(row)
    \/ \E e \in Entities : Load(e)
    \/ \E field \in {"title", "name", "bio"}, text \in Texts : SetAttr(field, text)
    \/ \E lang \in LangArgs : UpdateTranslations(lang)

SpecTable == InitTable /\ [][NextTable]_vars

\* The querysets without predicates and relations that apply, cipher,
\* decipher and values chain to.
Configurations ==
    {[QuerySetInit EXCEPT !.trans_lang = l, !.trans_rels = r, !.trans_cipher = c,
                          !.iterable_class = it] :
        l \in LangArgs, r \in {<<>>}, c \in BOOLEAN,
        it \in {"ModelIterable", "ValuesIterable"}}

\* Translations of articles written, and read back by get_translated and by
\* the evaluation of one queryset.
InitApply ==
    /\ cls = ArticleClass
    /\ result = NoResult
    /\ table = EmptyBag
    /\ obj \in {Instance(e) : e \in Articles}
    /\ qs \in {<<q>> : q \in Configurations}
    /\ last = NoCall

NextApply ==
    \/ \E row \in ValidRowsFor(Articles) : Create(row)
    \/ \E e \in Articles : Load(e)
    \/ \E text \in Texts : SetAttr("title", text)
    \/ \E lang \in LangArgs : UpdateTranslations(lang)
    \/ \E lang \in LangArgs : GetTranslated(lang)
    \/ FetchAll(1)

SpecApply == InitApply /\ [][NextApply]_vars

\* The rows the table holds while querysets are chained and evaluated: a
\* French title for the second article.
StoredRows ==
    SetToBag({Row(CHOOSE e \in Articles : e.object_id = "2", "title", "fr", "a")})

\* Query construction: chains of apply, cipher, decipher, filter and exclude,
\* the caller keeping the last queryset of a chain to build on.
InitQuery ==
    /\ cls = ArticleClass
    /\ result = NoResult
    /\ table = StoredRows
    /\ obj = Instance(CHOOSE e \in Articles : e.object_id = "1")
    /\ qs = <<QuerySetInit>>
    /\ last = NoCall

NextQuery ==
    \/ \E i \in DOMAIN qs, lang \in LangArgs : Apply(i, lang)
    \/ \E i \in DOMAIN qs : Cipher(i)
    \/ \E i \in DOMAIN qs : Decipher(i)
    \/ \E i \in DOMAIN qs, lookup \in Lookups : Filter(i, lookup)
    \/ \E i \in DOMAIN qs, lookup \in Lookups : Exclude(i, lookup)
    \/ Rebind

SpecQuery == InitQuery /\ [][NextQuery]_vars

\* Chaining and evaluation of querysets over a table that is not written;
\* filter and exclude are called on querysets without predicates.
InitEval ==
    /\ cls = ArticleClass
    /\ result = NoResult
    /\ table = StoredRows
    /\ obj = Instance(CHOOSE e \in Articles : e.object_id = "1")
    /\ qs = <<QuerySetInit>>
    /\ last = NoCall

\* The querysets that carry no predicate yet.
Unfiltered == {i \in DOMAIN qs : qs[i].query = <<>>}

NextEval ==
    \/ \E i \in DOMAIN qs, lang \in LangArgs : Apply(i, lang)
    \/ \E i \in DOMAIN qs, fields \in RelationArgs : TranslateRelated(i, fields)
    \/ \E i \in DOMAIN qs : Cipher(i)
    \/ \E i \in DOMAIN qs : Decipher(i)
    \/ \E i \in DOMAIN qs : Values(i)
    \/ \E i \in Unfiltered, lookup \in Lookups : Filter(i, lookup)
    \/ \E i \in Unfiltered, lookup \in Lookups : Exclude(i, lookup)
    \/ \E i \in DOMAIN qs : FetchAll(i)

SpecEval == InitEval /\ [][NextEval]_vars

-----------------------------------------------------------------------------
(* The errors of the specification's taxonomy, as the code raises them.    *)

\* get_translatable_fields raises a plain Exception for a class that is not
\* translatable.
ConfigurationError == "Exception"

\* _fetch_all raises TypeError for an iterable class it does not support.
UnsupportedOperationError == "TypeError"

-----------------------------------------------------------------------------
(* Properties.                                                             *)

\* The elements of a sequence.
Range(s) == {s[i] : i \in DOMAIN s}

\* The queryset the last call was made on, and the queryset it returned.
Receiver == qs[last.self]
Returned == qs[Len(qs)]

\* C1: after any sequence of writes the Translation table holds at most one
\* row for each (content_type, object_id, field, language).
C1_UniqueAddress ==
    \A r \in BagToSet(table) : CountAt(table, Address(r)) = 1

\* C1 witness: a create for an address that already had a row was rejected,
\* with rows of several addresses in the table.
C1_Witness ==
    /\ last.op = "create"
    /\ last.raised = "IntegrityError"
    /\ BagCardinality(table) >= 2

\* The value a translatable field must hold after a read in language lang:
\* the text of the row at its address, or the value `before` without one.
ReadsAs(value, e, field, lang, before) ==
    LET rows == RowsAt(table, <<e.content_type, e.object_id, field, lang>>)
    IN IF rows = {} THEN value = before ELSE \A r \in rows : value = r.text

\* C2: after get_translated in language L, and after the evaluation of a
\* queryset that reads the translations of its language L, every translatable
\* field holds the text of the row at (type, id, field, L) when there is one
\* and the value it held before the read otherwise.
C2_ApplyOrFallback ==
    [][/\ last'.op = "get_translated" =>
            \A f \in DOMAIN obj.values :
                ReadsAs(obj'.values[f], EntityOf(obj), f,
                        get_standard_language(last'.arg), obj.values[f])
       /\ (last'.op = "fetch_all" /\ last'.overlay_read) =>
            /\ {EntityOf(x) : x \in qs'[1].result_cache} = Articles
            /\ \A x \in qs'[1].result_cache : \A f \in DOMAIN x.values :
                   ReadsAs(x.values[f], EntityOf(x), f, qs[1].trans_lang,
                           BaseValue(EntityOf(x), f))]_vars

\* C2 witness: get_translated("de") put the text of the German row, which is
\* not the base value, on the title of the instance.
C2_Witness ==
    /\ last.op = "get_translated"
    /\ last.arg = "de"
    /\ \E r \in BagToSet(table) :
          /\ Address(r) = <<obj.content_type, obj.object_id, "title", "de">>
          /\ r.text # BaseValue(EntityOf(obj), "title")
          /\ obj.values["title"] = r.text

\* The last call evaluated a queryset in translate mode whose iterable class
\* is not the model iterable.
IncompatibleEvaluation ==
    /\ last.op = "fetch_all"
    /\ translate_mode(Receiver)
    /\ Receiver.iterable_class # "ModelIterable"

\* C3 as stated: such an evaluation fails with the unsupported-operation
\* error and reads neither the entity store nor the Translation table.
C3_NoStoreAccess ==
    IncompatibleEvaluation =>
        /\ last.raised = UnsupportedOperationError
        /\ ~last.entity_read
        /\ ~last.overlay_read

\* C3 amended: such an evaluation fails with the unsupported-operation error
\* and reads no translations; the underlying query has run by then, so the
\* result cache is filled.
C3_NoOverlayRead ==
    IncompatibleEvaluation =>
        /\ last.raised = UnsupportedOperationError
        /\ ~last.overlay_read
        /\ Receiver.reads = 0
        /\ ~Receiver.trans_cache
        /\ Receiver.evaluated

\* C3 witness: the first evaluation of a values() queryset in translate mode
\* raised, after the query was run against the entity store.
C3_Witness ==
    /\ IncompatibleEvaluation
    /\ last.raised = UnsupportedOperationError
    /\ last.entity_read

\* The last call was cipher() or decipher() on a queryset whose results are
\* materialized.
ModeSwitchAfterEvaluation ==
    /\ last.op \in {"cipher", "decipher"}
    /\ Receiver.evaluated

\* C4 as stated: cipher() / decipher() on an evaluated queryset fails with
\* ConfigurationError.
C4_SwitchFails ==
    ModeSwitchAfterEvaluation => last.raised = ConfigurationError

\* C4 amended: cipher() / decipher() on an evaluated queryset raises nothing
\* and returns a new queryset, not evaluated and not translated, with the
\* cipher flag set as called for.
C4_SwitchClones ==
    ModeSwitchAfterEvaluation =>
        /\ last.raised = None
        /\ Len(qs) > last.self
        /\ ~Returned.evaluated
        /\ Returned.result_cache = {}
        /\ ~Returned.trans_cache
        /\ Returned.trans_cipher = (last.op = "cipher")

\* C4 witness: decipher() followed the translating evaluation of its receiver.
C4_Witness ==
    /\ last.op = "decipher"
    /\ Receiver.evaluated
    /\ Receiver.trans_cache
    /\ ~Returned.trans_cipher

\* The field classes that hold free text: CharField, TextField and their
\* subclasses.
FreeText(field) == field.kind \in {"CharField", "TextField", "EmailField", "SlugField"}

\* The declared list names fields of the class only.
DeclarationResolves == \A i \in DOMAIN cls.declared : cls.declared[i] \in NamesOf(cls)

\* The explicit half of C5: a declared list that names fields of the class
\* yields exactly those fields, in declared order.
DeclaredInOrder ==
    (cls.meta = "list" /\ DeclarationResolves) =>
        /\ result.raised = None
        /\ Len(result.fields) = Len(cls.declared)
        /\ \A i \in DOMAIN cls.declared :
              /\ result.fields[i].name = cls.declared[i]
              /\ result.fields[i] \in Range(cls.fields)

\* The computed list holds exactly the fields of Wanted, each once, in the
\* order of the class.
ExactlyInOrder(Wanted) ==
    /\ result.raised = None
    /\ Range(result.fields) = Wanted
    /\ Len(result.fields) = Cardinality(Wanted)
    /\ \A i, j \in DOMAIN result.fields :
          i < j => \E a, b \in DOMAIN cls.fields :
                      a < b /\ cls.fields[a] = result.fields[i]
                            /\ cls.fields[b] = result.fields[j]

C6_DeclaredSucceeds ==
    result # NoResult =>
        /\ cls.meta = "absent" =>
              (result.raised = ConfigurationError /\ result.fields = <<>>)
        /\ cls.meta # "absent" => result.raised = None

\* C6 amended: without a declaration the computation fails with
\* ConfigurationError and yields no list; with the default declaration, or a
\* list that names fields of the class only, it succeeds; a list that names
\* something else fails with FieldDoesNotExist.
C6_ResolvedSucceeds ==
    result # NoResult =>
        /\ cls.meta = "absent" =>
              (result.raised = ConfigurationError /\ result.fields = <<>>)
        /\ (cls.meta = "default" \/ (cls.meta = "list" /\ DeclarationResolves)) =>
              result.raised = None
        /\ (cls.meta = "list" /\ ~DeclarationResolves) =>
              result.raised = "FieldDoesNotExist"

\* C6 witness: the computation was run on a class without TranslatableMeta
\* that has a free-text field, and raised.
C6_Witness ==
    /\ cls.meta = "absent"
    /\ result.raised = ConfigurationError
    /\ \E f \in Range(cls.fields) : FreeText(f) /\ ~f.choices

\* C7: the predicate filter / exclude add to the query is the lookup on the
\* Translation rows of the applied language exactly when the receiver has a
\* language applied and cipher on, and the lookup on the base field
\* otherwise; exclude differs from filter in the negation only.
C7_RewriteIffTranslateMode ==
    last.op \in {"filter", "exclude"} =>
        LET p == Returned.query[Len(Returned.query)]
        IN /\ Len(Returned.query) = Len(Receiver.query) + 1
           /\ p.field = last.arg.field
           /\ p.value = last.arg.value
           /\ p.negated = (last.op = "exclude")
           /\ (Receiver.trans_lang # None /\ Receiver.trans_cipher) => p.lang = Receiver.trans_lang
           /\ (Receiver.trans_lang = None \/ ~Receiver.trans_cipher) => p.lang = None

\* C7 witness: exclude on a deciphered queryset with German applied left the
\* lookup on the base field.
C7_Witness ==
    /\ last.op = "exclude"
    /\ Receiver.trans_lang = "de"
    /\ ~Receiver.trans_cipher
    /\ Returned.query[Len(Returned.query)].lang = None

\* The settings of queryset c other than `setting` are those of queryset r.
CarriedOver(r, c, setting) ==
    /\ setting # "lang" => c.trans_lang = r.trans_lang
    /\ setting # "rels" => c.trans_rels = r.trans_rels
    /\ setting # "cipher" => c.trans_cipher = r.trans_cipher
    /\ setting # "query" => c.query = r.query
    /\ c.iterable_class = r.iterable_class

\* C8: a chaining call leaves every existing queryset as it was (language,
\* relations, cipher flag, translated-cache flag, results) and returns a new
\* queryset that carries the receiver's language, relations, cipher flag,
\* predicates and iterable class except for the one setting the call is about
\* (filter / exclude: one more predicate).
C8_ChainingSnapshots ==
    [][last'.op \in {"apply", "translate_related", "cipher", "decipher", "filter", "exclude"} =>
          LET r == qs[last'.self]
              c == qs'[Len(qs')]
          IN /\ Len(qs') = Len(qs) + 1
             /\ \A j \in DOMAIN qs : qs'[j] = qs[j]
             /\ last'.op = "apply" =>
                   (c.trans_lang = get_standard_language(last'.arg) /\ CarriedOver(r, c, "lang"))
             /\ last'.op = "translate_related" =>
                   /\ c.trans_rels = (IF last'.arg = <<None>> THEN <<>> ELSE last'.arg)
                   /\ CarriedOver(r, c, "rels")
             /\ last'.op = "cipher" => (c.trans_cipher /\ CarriedOver(r, c, "cipher"))
             /\ last'.op = "decipher" => (~c.trans_cipher /\ CarriedOver(r, c, "cipher"))
             /\ last'.op \in {"filter", "exclude"} =>
                   /\ SubSeq(c.query, 1, Len(r.query)) = r.query
                   /\ Len(c.query) = Len(r.query) + 1
                   /\ CarriedOver(r, c, "query")]_vars

\* C8 witness: translate_related("comments") was called on an evaluated and
\* translated queryset, which keeps its flag and its empty relation list.
C8_Witness ==
    /\ last.op = "translate_related"
    /\ Receiver.trans_cache
    /\ Receiver.trans_rels = <<>>
    /\ Returned.trans_rels = <<"comments">>
    /\ Returned.trans_lang = Receiver.trans_lang

\* C9: in a chain each filter / exclude appends one predicate, rewritten for
\* the language and mode of its receiver at that call, to the predicates of
\* the receiver, which stay as they are and in their order; apply, cipher
\* and decipher leave the predicates as they are.  The query is the
\* conjunction of its predicates.
C9_ChainComposes ==
    [][Len(qs') = Len(qs) + 1 =>
          LET r == qs[last'.self]
              c == qs'[Len(qs')]
          IN /\ last'.op \in {"filter", "exclude"} =>
                   c.query = Append(r.query,
                                    Predicate(last'.op = "exclude",
                                              IF r.trans_lang # None /\ r.trans_cipher
                                              THEN r.trans_lang ELSE None,
                                              last'.arg))
             /\ last'.op \in {"apply", "cipher", "decipher"} => c.query = r.query
             /\ Execute(table, c.query) =
                   {x \in Execute(table, r.query) :
                       \A k \in DOMAIN c.query : Satisfies(table, EntityOf(x), c.query[k])}]_vars

\* C9 witness: a query whose first predicate was rewritten for German and
\* whose second, added after decipher(), is on the base field, held by a
\* queryset that was ciphered again and moved to French afterwards.
C9_Witness ==
    /\ last.op = "apply"
    /\ Returned.trans_lang = "fr"
    /\ Returned.trans_cipher
    /\ Len(Returned.query) = 2
    /\ Returned.query[1].lang = "de"
    /\ Returned.query[2].lang = None

\* C10: a queryset object reads the translations at most once however often
\* it is evaluated, and only in translate mode with the model iterable; a
\* queryset returned by a chaining call has its flag cleared and has read
\* nothing, and an evaluation in translate mode leaves the read done.
C10_ReadOnce ==
    /\ \A i \in DOMAIN qs :
          /\ qs[i].reads <= 1
          /\ qs[i].reads = 1 <=> qs[i].trans_cache
          /\ qs[i].reads = 1 =>
                (translate_mode(qs[i]) /\ qs[i].iterable_class = "ModelIterable")
    /\ last.op \in {"apply", "translate_related", "cipher", "decipher", "values",
                    "filter", "exclude"} =>
          (~Returned.trans_cache /\ Returned.reads = 0)
    /\ (last.op = "fetch_all" /\ translate_mode(Receiver)
            /\ Receiver.iterable_class = "ModelIterable") => Receiver.reads = 1

\* C10 witness: a queryset chained from a translated queryset was evaluated a
\* second time; both have read the translations once.
C10_Witness ==
    /\ last.op = "fetch_all"
    /\ ~last.entity_read
    /\ ~last.overlay_read
    /\ last.self > 1
    /\ Receiver.reads = 1
    /\ qs[last.self - 1].reads = 1

====
